---- MODULE Spec2Model ----
(***************************************************************************)
(* Model of src/app.py: the /generate-sql handler (generate_sql) of the   *)
(* DOMO Magic ETL -> Snowflake SQL service.  One request is handled at a   *)
(* time by a handler instance; the handler's stages are the actions, the   *)
(* inbound document and the backend's behaviour are chosen from small      *)
(* sets.                                                                   *)
(*                                                                         *)
(* Python values are tagged records [t |-> <type name>, v |-> <payload>].  *)
(* A text (Python str) is either                                           *)
(*   [k |-> "chars", s |-> <<c1, ..., cn>>]  a sequence of characters, or  *)
(*   [k |-> "json",  doc |-> v]              the JSON encoding of value v. *)
(* The character texts used here contain only letters, blanks, newlines    *)
(* and ";", so none of them is a JSON document.                            *)
(***************************************************************************)
EXTENDS Integers, Sequences, FiniteSets, TLC

VARIABLES pc, request, data, input_json, payload, backend, response_content,
          sql, statements, combined_use, other_statements, indexed_sql,
          reply, calls, decodes, stages

vars == <<pc, request, data, input_json, payload, backend, response_content,
          sql, statements, combined_use, other_statements, indexed_sql,
          reply, calls, decodes, stages>>

(***************************************************************************)
(* Bounds.                                                                 *)
(***************************************************************************)
MaxFrags == 3

(***************************************************************************)
(* Python values.                                                          *)
(***************************************************************************)
Unset == [t |-> "unset"]
PyNone == [t |-> "NoneType"]
PyInt(n) == [t |-> "int", v |-> n]
PyStr(text) == [t |-> "str", v |-> text]
PyList(xs) == [t |-> "list", v |-> xs]
PyDict(f) == [t |-> "dict", v |-> f]

Chars(s) == [k |-> "chars", s |-> s]
JsonText(v) == [k |-> "json", doc |-> v]

EmptyDict == [x \in {} |-> Unset]

TERMINATOR == ";"
USE_PREFIX == <<"U", "S", "E", " ">>
INPUT_KEY == <<"i", "n", "p", "u", "t", "J", "s", "o", "n">>

(***************************************************************************)
(* str methods on character sequences.                                     *)
(***************************************************************************)
IsSpace(c) == c \in {" ", "\n"}

UpperChar(c) ==
    CASE c = "a" -> "A" [] c = "b" -> "B" [] c = "c" -> "C" [] c = "d" -> "D"
      [] c = "e" -> "E" [] c = "s" -> "S" [] c = "u" -> "U" [] c = "x" -> "X"
      [] c = "y" -> "Y" [] OTHER -> c

Upper(s) == [i \in 1..Len(s) |-> UpperChar(s[i])]

StartsWith(s, p) == Len(s) >= Len(p) /\ SubSeq(s, 1, Len(p)) = p

RECURSIVE LStrip(_)
LStrip(s) == IF s # <<>> /\ IsSpace(Head(s)) THEN LStrip(Tail(s)) ELSE s

RECURSIVE RStrip(_)
RStrip(s) ==
    IF s # <<>> /\ IsSpace(s[Len(s)]) THEN RStrip(SubSeq(s, 1, Len(s) - 1)) ELSE s

Strip(s) == RStrip(LStrip(s))

\* s.split(";"): scan left to right, cutting at every terminator; the piece
\* after the last terminator (possibly empty) is always produced.
RECURSIVE SplitFrom(_, _, _)
SplitFrom(s, cur, acc) ==
    IF s = <<>> THEN Append(acc, cur)
    ELSE IF Head(s) = TERMINATOR THEN SplitFrom(Tail(s), <<>>, Append(acc, cur))
    ELSE SplitFrom(Tail(s), Append(cur, Head(s)), acc)

Split(s) == SplitFrom(s, <<>>, <<>>)

\* sep.join(xs)
RECURSIVE Join(_, _)
Join(sep, xs) ==
    IF xs = <<>> THEN <<>>
    ELSE IF Len(xs) = 1 THEN xs[1]
    ELSE xs[1] \o sep \o Join(sep, Tail(xs))

\* 'needle in haystack' for two str
IsSubstring(needle, hay) ==
    \E i \in 1..(Len(hay) + 1) :
        /\ i + Len(needle) - 1 <= Len(hay)
        /\ SubSeq(hay, i, i + Len(needle) - 1) = needle

(***************************************************************************)
(* json and truthiness.                                                    *)
(***************************************************************************)
\* json.loads(text): the decoded value, or JSONDecodeError
JsonLoads(text) ==
    IF text.k = "json" THEN [ok |-> TRUE, v |-> text.doc]
    ELSE [ok |-> FALSE, err |-> "Expecting value: line 1 column 1 (char 0)"]

\* json.dumps(v)
JsonDumps(v) == JsonText(v)

\* text.strip() of a str: a JSON document has at least one non-blank character
StripText(text) == IF text.k = "chars" THEN Chars(Strip(text.s)) ELSE text

\* bool(v)
Truthy(v) ==
    CASE v.t = "NoneType" -> FALSE
      [] v.t = "int" -> v.v # 0
      [] v.t = "str" -> v.v # Chars(<<>>)
      [] v.t = "list" -> v.v # <<>>
      [] v.t = "dict" -> DOMAIN v.v # {}
      [] OTHER -> TRUE

\* d.get(key, default)
DictGet(d, key, default) == IF key \in DOMAIN d.v THEN d.v[key] ELSE default

(***************************************************************************)
(* Responses of the handler: jsonify(doc), status.                         *)
(***************************************************************************)
Response(status, doc) == [status |-> status, doc |-> doc]

\* no outer except clause: the framework answers with its own error page
ExceptionEscapes(e) == Response(500, [html |-> "Internal Server Error"])

\* except Exception as e: return jsonify({"error": str(e)}), 500
ExceptException(e) == Response(500, [error |-> e])

(***************************************************************************)
(* The statement partitioner (the tail of generate_sql).                   *)
(***************************************************************************)
\* the filter written "if s": blank pieces survive as empty statements
StatementsKeepBlank(s) ==
    LET parts == SelectSeq(Split(s), LAMBDA x : x # <<>>)
    IN  [i \in 1..Len(parts) |-> Strip(parts[i])]

\* [s.strip() for s in sql.split(";") if s.strip()]
Statements(s) ==
    LET parts == Split(s)
        stripped == [i \in 1..Len(parts) |-> Strip(parts[i])]
    IN  SelectSeq(stripped, LAMBDA x : x # <<>>)

\* the prefix test without upper()
IsUseCaseSensitive(stmt) == StartsWith(stmt, USE_PREFIX)

\* stmt.upper().startswith("USE ")
IsUse(stmt) == StartsWith(Upper(stmt), USE_PREFIX)

\* the terminator not re-appended
Unterminated(stmt) == stmt

\* stmt + ";"
Terminated(stmt) == Append(stmt, TERMINATOR)

\* the for loop over statements: <<combined_use, other_statements>>
RECURSIVE Classify(_, _, _)
Classify(stmts, use, other) ==
    IF stmts = <<>> THEN <<use, other>>
    ELSE IF IsUse(Head(stmts))
         THEN Classify(Tail(stmts), Append(use, Terminated(Head(stmts))), other)
         ELSE Classify(Tail(stmts), use, Append(other, Terminated(Head(stmts))))

\* enumerate without start=1
BodyKeyFromZero(i) == ToString(i - 1)

\* enumerate(other_statements, start=1): the key of the i-th body statement
BodyKey(i) == ToString(i)

\* " ".join(combined_use)
JoinUse(use) == Join(<<" ">>, use)

\* d[key] = value
DictSet(d, key, value) ==
    [x \in DOMAIN d \cup {key} |-> IF x = key THEN value ELSE d[x]]

\* for i, stmt in enumerate(other_statements, start=1): d[str(i)] = stmt
RECURSIVE AssignBodies(_, _, _)
AssignBodies(d, other, i) ==
    IF i > Len(other) THEN d
    ELSE AssignBodies(DictSet(d, BodyKey(i), other[i]), other, i + 1)

\* the indexed_sql dict built from the two lists
IndexedSql(use, other) ==
    LET d0 == IF use # <<>> THEN DictSet(<<>>, "0", JoinUse(use)) ELSE <<>>
    IN  AssignBodies(d0, other, 1)

\* the whole partitioner as a function of the sql text
PartitionText(s) ==
    LET c == Classify(Statements(s), <<>>, <<>>) IN IndexedSql(c[1], c[2])

(***************************************************************************)
(* Inputs: the SQL texts the backend may generate, the inbound documents   *)
(* and the backend's behaviours.                                           *)
(***************************************************************************)
\* terminator-free pieces of SQL text
FRAGMENTS == <<
    <<"U", "S", "E", " ", "a">>,
    <<"\n", "u", "S", "e", " ", "b", " ">>,
    <<"x">>,
    <<"U", "S", "E", "\n", "d">>,
    <<"U", "S", "E", " ">>,
    <<" ">>,
    <<>> >>

\* the texts made of 1..MaxFrags pieces separated by the terminator
FragmentChoices == UNION {[1..n -> 1..Len(FRAGMENTS)] : n \in 1..MaxFrags}
SqlOf(choice) == Join(<<TERMINATOR>>, [i \in 1..Len(choice) |-> FRAGMENTS[choice[i]]])
\* "USE DB; USE SCHEMA S; SELECT 1; SELECT 2;"
EXAMPLE_SQL ==
    <<"U", "S", "E", " ", "D", "B", ";", " ",
      "U", "S", "E", " ", "S", "C", "H", "E", "M", "A", " ", "S", ";", " ",
      "S", "E", "L", "E", "C", "T", " ", "1", ";", " ",
      "S", "E", "L", "E", "C", "T", " ", "2", ";">>

SqlTexts == {SqlOf(choice) : choice \in FragmentChoices} \cup {EXAMPLE_SQL}

AnObject == PyDict([steps |-> PyList(<<>>)])

\* values of the inputJson field
InputJsonValues == {
    AnObject,
    PyInt(5),
    PyStr(JsonText(AnObject)),
    PyStr(JsonText(PyStr(JsonText(AnObject)))),
    PyStr(Chars(<<"x">>)) }

\* decoded request bodies
RequestDocs ==
    {PyNone, PyInt(5), PyStr(Chars(<<"x">>)), PyStr(Chars(INPUT_KEY)),
     PyList(<<>>), PyList(<<PyStr(Chars(INPUT_KEY))>>),
     PyDict(EmptyDict), PyDict([other |-> PyInt(5)])}
    \cup {PyDict([inputJson |-> v]) : v \in InputJsonValues}

\* the inbound request: content type and body
Requests ==
    {[is_json |-> FALSE, body |-> Chars(<<"x">>)],
     [is_json |-> FALSE, body |-> JsonText(PyDict([inputJson |-> AnObject]))],
     [is_json |-> TRUE, body |-> Chars(<<"x">>)]}
    \cup {[is_json |-> TRUE, body |-> JsonText(d)] : d \in RequestDocs}

\* values of the sql field of the generated document
SqlValues ==
    {PyNone, PyInt(0), PyInt(5), PyList(<<>>)} \cup {PyStr(Chars(s)) : s \in SqlTexts}

\* values decoded from the backend's output text
OutputDocs ==
    {PyNone, PyInt(5), PyList(<<PyInt(5)>>), PyDict(EmptyDict),
     PyDict([datasourceName |-> PyList(<<>>)])}
    \cup {PyDict([sql |-> v]) : v \in SqlValues}

\* values of the output field of the backend's payload
OutputValues ==
    {PyNone, PyInt(5), PyStr(Chars(<<>>)), PyStr(Chars(<<" ", "\n">>)),
     PyStr(Chars(<<"x">>))}
    \cup {PyStr(JsonText(d)) : d \in OutputDocs}

\* bodies of the backend's response
BackendDocs ==
    {PyNone, PyList(<<>>), PyDict(EmptyDict)}
    \cup {PyDict([output |-> v]) : v \in OutputValues}

\* what requests.post does: raise, or return a response
BackendOutcomes ==
    {[kind |-> "raise", exc |-> "ConnectionError"],
     [kind |-> "response", status_code |-> 500, text |-> Chars(<<"x">>)],
     [kind |-> "response", status_code |-> 200, text |-> Chars(<<"x">>)]}
    \cup {[kind |-> "response", status_code |-> 200, text |-> JsonText(d)] : d \in BackendDocs}

(***************************************************************************)
(* The handler generate_sql, one action per stage.  reply is the sequence  *)
(* of responses returned for the current request, stages the stages that   *)
(* ran, calls the number of requests.post calls, decodes the number of     *)
(* json.loads passes over inputJson.                                       *)
(***************************************************************************)
Init ==
    /\ pc = "idle"
    /\ request = Unset
    /\ data = Unset
    /\ input_json = Unset
    /\ payload = Unset
    /\ backend = Unset
    /\ response_content = Unset
    /\ sql = Unset
    /\ statements = <<>>
    /\ combined_use = <<>>
    /\ other_statements = <<>>
    /\ indexed_sql = <<>>
    /\ reply = <<>>
    /\ calls = 0
    /\ decodes = 0
    /\ stages = <<>>

\* return <response>
Return(r) == reply' = Append(reply, r) /\ pc' = "done"

\* a statement that completes without returning
Goto(next) == pc' = next /\ UNCHANGED reply

\* an exception raised inside the outer try
Raise(e) == Return(ExceptException(e))

\* the route is invoked with a request
Receive(req) ==
    /\ pc = "idle"
    /\ request' = req
    /\ pc' = "is_json"
    /\ UNCHANGED <<data, input_json, payload, backend, response_content, sql,
                   statements, combined_use, other_statements, indexed_sql,
                   reply, calls, decodes, stages>>

\* if not request.is_json: return 400
CheckIsJson ==
    /\ pc = "is_json"
    /\ stages' = Append(stages, "is_json")
    /\ IF ~request.is_json
       THEN Return(Response(400, [error |-> "Request body must be in JSON format"]))
       ELSE Goto("get_json")
    /\ UNCHANGED <<request, data, input_json, payload, backend, response_content,
                   sql, statements, combined_use, other_statements, indexed_sql,
                   calls, decodes>>

\* data = request.get_json(): raises BadRequest when the body does not decode
GetJson ==
    /\ pc = "get_json"
    /\ stages' = Append(stages, "get_json")
    /\ LET r == JsonLoads(request.body)
       IN  IF r.ok
           THEN data' = r.v /\ Goto("lookup")
           ELSE /\ Raise("400 Bad Request: Failed to decode JSON object")
                /\ UNCHANGED data
    /\ UNCHANGED <<request, input_json, payload, backend, response_content, sql,
                   statements, combined_use, other_statements, indexed_sql,
                   calls, decodes>>

\* 'inputJson' in data, by the type of data
KeyInData(d) ==
    CASE d.t = "dict" -> [ok |-> TRUE, v |-> "inputJson" \in DOMAIN d.v]
      [] d.t = "str" -> [ok |-> TRUE, v |-> d.v.k = "chars" /\ IsSubstring(INPUT_KEY, d.v.s)]
      [] d.t = "list" ->
            [ok |-> TRUE, v |-> \E i \in 1..Len(d.v) : d.v[i] = PyStr(Chars(INPUT_KEY))]
      [] OTHER -> [ok |-> FALSE, err |-> "argument of type is not iterable"]

\* if 'inputJson' not in data: return 400;  input_json = data['inputJson']
LookupInputJson ==
    /\ pc = "lookup"
    /\ stages' = Append(stages, "lookup")
    /\ LET has == KeyInData(data)
       IN  IF ~has.ok
           THEN Raise(has.err) /\ UNCHANGED input_json
           ELSE IF ~has.v
           THEN /\ Return(Response(400,
                         [error |-> "'inputJson' key not found in request body"]))
                /\ UNCHANGED input_json
           ELSE IF data.t # "dict"
           THEN Raise("indices must be integers") /\ UNCHANGED input_json
           ELSE input_json' = data.v["inputJson"] /\ Goto("decode_input")
    /\ UNCHANGED <<request, data, payload, backend, response_content, sql,
                   statements, combined_use, other_statements, indexed_sql,
                   calls, decodes>>

\* if isinstance(input_json, str): input_json = json.loads(input_json)
DecodeInputJson ==
    /\ pc = "decode_input"
    /\ stages' = Append(stages, "decode_input")
    /\ IF input_json.t = "str"
       THEN LET r == JsonLoads(input_json.v)
            IN  /\ decodes' = decodes + 1
                /\ IF r.ok
                   THEN input_json' = r.v /\ Goto("call_backend")
                   ELSE /\ Return(Response(400,
                                 [error |-> "inputJson string is not a valid JSON object",
                                  details |-> r.err]))
                        /\ UNCHANGED input_json
       ELSE Goto("call_backend") /\ UNCHANGED <<input_json, decodes>>
    /\ UNCHANGED <<request, data, payload, backend, response_content, sql,
                   statements, combined_use, other_statements, indexed_sql, calls>>

\* the payload sent to the backend
BuildPayload(v) ==
    [model |-> "domo.openai.gpt-4o-mini",
     input |-> [instruction |-> "system_instruction", etl |-> JsonDumps(v)]]

\* the call retried after a failed attempt or a non-success status
CallBackendWithRetry(outcome) ==
    /\ pc = "call_backend"
    /\ stages' = Append(stages, "call_backend")
    /\ payload' = BuildPayload(input_json)
    /\ backend' = outcome
    /\ calls' = calls + 1
    /\ IF (outcome.kind = "raise" \/ outcome.status_code # 200) /\ calls = 0
       THEN Goto("call_backend")
       ELSE IF outcome.kind = "raise"
       THEN Raise(outcome.exc)
       ELSE IF outcome.status_code # 200
       THEN Return(Response(500, [error |-> "API call failed", details |-> outcome.text]))
       ELSE Goto("read_output")
    /\ UNCHANGED <<request, data, input_json, response_content, sql, statements,
                   combined_use, other_statements, indexed_sql, decodes>>

\* response = requests.post(...); if response.status_code != 200: return 500
CallBackend(outcome) ==
    /\ pc = "call_backend"
    /\ stages' = Append(stages, "call_backend")
    /\ payload' = BuildPayload(input_json)
    /\ backend' = outcome
    /\ calls' = calls + 1
    /\ IF outcome.kind = "raise"
       THEN Raise(outcome.exc)
       ELSE IF outcome.status_code # 200
       THEN Return(Response(500, [error |-> "API call failed", details |-> outcome.text]))
       ELSE Goto("read_output")
    /\ UNCHANGED <<request, data, input_json, response_content, sql, statements,
                   combined_use, other_statements, indexed_sql, decodes>>

\* response_content = response.json().get("output", ""); the empty check
ReadOutput ==
    /\ pc = "read_output"
    /\ stages' = Append(stages, "read_output")
    /\ LET r == JsonLoads(backend.text)
       IN  IF ~r.ok
           THEN Raise(r.err) /\ UNCHANGED response_content
           ELSE IF r.v.t # "dict"
           THEN Raise("object has no attribute 'get'") /\ UNCHANGED response_content
           ELSE LET content == DictGet(r.v, "output", PyStr(Chars(<<>>)))
                IN  /\ response_content' = content
                    /\ IF content.t # "str"
                       THEN Raise("object has no attribute 'strip'")
                       ELSE IF StripText(content.v) = Chars(<<>>)
                       THEN Return(Response(500,
                                [error |-> "DOMO API returned empty output",
                                 raw_output |-> content]))
                       ELSE Goto("parse_output")
    /\ UNCHANGED <<request, data, input_json, payload, backend, sql, statements,
                   combined_use, other_statements, indexed_sql, calls, decodes>>

\* response_json = json.loads(response_content); sql = response_json.get("sql")
ParseOutput ==
    /\ pc = "parse_output"
    /\ stages' = Append(stages, "parse_output")
    /\ LET r == JsonLoads(response_content.v)
       IN  IF ~r.ok
           THEN /\ Return(Response(500,
                         [error |-> "Invalid JSON returned from DOMO API",
                          raw_output |-> response_content,
                          details |-> r.err]))
                /\ UNCHANGED sql
           ELSE IF r.v.t # "dict"
           THEN Raise("object has no attribute 'get'") /\ UNCHANGED sql
           ELSE /\ sql' = DictGet(r.v, "sql", PyNone)
                /\ IF ~Truthy(sql')
                   THEN Return(Response(500,
                            [error |-> "DOMO API output is missing required fields",
                             raw_output |-> response_content]))
                   ELSE Goto("partition")
    /\ UNCHANGED <<request, data, input_json, payload, backend, response_content,
                   statements, combined_use, other_statements, indexed_sql,
                   calls, decodes>>

\* split, classify, index and return {"Output": indexed_sql}
Partition ==
    /\ pc = "partition"
    /\ stages' = Append(stages, "partition")
    /\ IF sql.t # "str"
       THEN /\ Raise("object has no attribute 'split'")
            /\ UNCHANGED <<statements, combined_use, other_statements, indexed_sql>>
       ELSE LET stmts == Statements(sql.v.s)
                c == Classify(stmts, <<>>, <<>>)
                d == IndexedSql(c[1], c[2])
            IN  /\ statements' = stmts
                /\ combined_use' = c[1]
                /\ other_statements' = c[2]
                /\ indexed_sql' = d
                /\ Return(Response(200, [Output |-> d]))
    /\ UNCHANGED <<request, data, input_json, payload, backend, response_content,
                   sql, calls, decodes>>

\* the response is sent and the request's data is discarded
NextRequest ==
    /\ pc = "done"
    /\ pc' = "idle"
    /\ request' = Unset
    /\ data' = Unset
    /\ input_json' = Unset
    /\ payload' = Unset
    /\ backend' = Unset
    /\ response_content' = Unset
    /\ sql' = Unset
    /\ statements' = <<>>
    /\ combined_use' = <<>>
    /\ other_statements' = <<>>
    /\ indexed_sql' = <<>>
    /\ reply' = <<>>
    /\ calls' = 0
    /\ decodes' = 0
    /\ stages' = <<>>

Next ==
    \/ \E req \in Requests : Receive(req)
    \/ CheckIsJson
    \/ GetJson
    \/ LookupInputJson
    \/ DecodeInputJson
    \/ \E outcome \in BackendOutcomes : CallBackend(outcome)
    \/ ReadOutput
    \/ ParseOutput
    \/ Partition
    \/ NextRequest

Spec == Init /\ [][Next]_vars

(***************************************************************************)
(* Vocabulary of the properties.                                           *)
(***************************************************************************)
Done == pc = "done"

\* the partitioner ran on a (non-empty) SQL text and the handler returned
Partitioned ==
    /\ pc = "done"
    /\ stages # <<>> /\ stages[Len(stages)] = "partition"
    /\ sql.t = "str"

\* the Output mapping of the response
Output == reply[1].doc.Output

\* the error kind a response stands for
ErrorKind(r) ==
    IF "error" \notin DOMAIN r.doc THEN "none"
    ELSE CASE r.doc.error \in {"Request body must be in JSON format",
                               "'inputJson' key not found in request body"}
                -> "MalformedRequest"
           [] r.doc.error = "inputJson string is not a valid JSON object"
                -> "MalformedPipelineDescription"
           [] r.doc.error = "API call failed" -> "BackendUnavailable"
           [] r.doc.error = "DOMO API returned empty output" -> "EmptyGenerationOutput"
           [] r.doc.error = "Invalid JSON returned from DOMO API"
                -> "InvalidGenerationOutput"
           [] r.doc.error = "DOMO API output is missing required fields"
                -> "MissingRequiredField"
           [] OTHER -> "InternalError"

\* The statements of a text, stated from the text itself: the pieces between
\* consecutive terminators, trimmed, the blank ones dropped, each terminated.
CutPoints(s) == {0} \cup {i \in 1..Len(s) : s[i] = ";"} \cup {Len(s) + 1}

NthCut(s, n) ==
    CHOOSE c \in CutPoints(s) : Cardinality({d \in CutPoints(s) : d < c}) = n - 1

Pieces(s) ==
    [n \in 1..(Cardinality(CutPoints(s)) - 1) |->
        SubSeq(s, NthCut(s, n) + 1, NthCut(s, n + 1) - 1)]

IsBlank(p) == \A i \in 1..Len(p) : IsSpace(p[i])

Trimmed(p) ==
    IF IsBlank(p) THEN <<>>
    ELSE LET solid == {i \in 1..Len(p) : ~IsSpace(p[i])}
             first == CHOOSE i \in solid : \A j \in solid : i <= j
             last  == CHOOSE i \in solid : \A j \in solid : j <= i
         IN  SubSeq(p, first, last)

StatementsOf(s) ==
    LET kept == SelectSeq(Pieces(s), LAMBDA p : ~IsBlank(p))
    IN  [i \in 1..Len(kept) |-> Trimmed(kept[i]) \o <<";">>]

\* a statement whose text matches the prefix "USE " whatever the case
IsContextStatement(st) ==
    /\ Len(st) >= 4
    /\ st[1] \in {"U", "u"} /\ st[2] \in {"S", "s"} /\ st[3] \in {"E", "e"}
    /\ st[4] = " "

ContextOf(s) == SelectSeq(StatementsOf(s), IsContextStatement)
BodyOf(s) == SelectSeq(StatementsOf(s), LAMBDA st : ~IsContextStatement(st))

RECURSIVE SpaceJoined(_)
SpaceJoined(xs) ==
    IF Len(xs) <= 1 THEN (IF xs = <<>> THEN <<>> ELSE xs[1])
    ELSE SpaceJoined(SubSeq(xs, 1, Len(xs) - 1)) \o <<" ">> \o xs[Len(xs)]

\* the values of a mapping concatenated in key order: "0", then "1", "2", ...
RECURSIVE ConcatBodies(_, _)
ConcatBodies(m, i) ==
    IF ToString(i) \in DOMAIN m THEN m[ToString(i)] \o ConcatBodies(m, i + 1) ELSE <<>>

ConcatInKeyOrder(m) ==
    (IF "0" \in DOMAIN m THEN m["0"] ELSE <<>>) \o ConcatBodies(m, 1)

(***************************************************************************)
(* Properties of the statement partitioner.                                *)
(***************************************************************************)
\* C1: for every non-empty SQL text handed to the partitioner, the handler
\* answers with the mapping (it does not fail), the key set is exactly "1".."n"
\* for the n body statements plus "0" exactly when a context statement exists,
\* and every value is non-empty and ends with ";".
PartitionKeysAndValues ==
    Partitioned =>
        /\ Len(reply) = 1
        /\ reply[1].status = 200
        /\ DOMAIN reply[1].doc = {"Output"}
        /\ DOMAIN Output =
              {ToString(i) : i \in 1..Len(other_statements)}
              \cup (IF combined_use # <<>> THEN {"0"} ELSE {})
        /\ \A key \in DOMAIN Output :
              /\ Output[key] # <<>>
              /\ Output[key][Len(Output[key])] = ";"

\* a text with two context and two body statements was partitioned
PartitionKeysAndValuesWitness ==
    /\ Partitioned
    /\ Len(combined_use) = 2
    /\ Len(other_statements) = 2
    /\ DOMAIN Output = {"0", "1", "2"}

\* C2: key "0" holds the context statements of the text in their original
\* order joined by one space (absent when there are none) and key str(i) holds
\* the i-th body statement, however the two kinds are interleaved; the
\* example text yields the example mapping.
ContextMergedBodiesInOrder ==
    Partitioned =>
        /\ ("0" \in DOMAIN Output) <=> (ContextOf(sql.v.s) # <<>>)
        /\ ContextOf(sql.v.s) # <<>> => Output["0"] = SpaceJoined(ContextOf(sql.v.s))
        /\ \A i \in 1..Len(BodyOf(sql.v.s)) :
              /\ ToString(i) \in DOMAIN Output
              /\ Output[ToString(i)] = BodyOf(sql.v.s)[i]
        /\ sql.v.s = EXAMPLE_SQL =>
              Output = [key \in {"0", "1", "2"} |->
                          CASE key = "0" -> SubSeq(EXAMPLE_SQL, 1, 21)
                            [] key = "1" -> SubSeq(EXAMPLE_SQL, 23, 31)
                            [] key = "2" -> SubSeq(EXAMPLE_SQL, 33, 41)]

\* a body statement stands between two context statements in the text
ContextMergedBodiesInOrderWitness ==
    /\ Partitioned
    /\ sql.v.s = SqlOf(<<1, 3, 2>>)
    /\ Output["0"] = <<"U", "S", "E", " ", "a", ";", " ", "u", "S", "e", " ", "b", ";">>
    /\ Output["1"] = <<"x", ";">>

HasTerminator(s) == \E i \in 1..Len(s) : s[i] = ";"

\* C3 as stated: every partitioned text without a terminator yields a
\* single-entry mapping whose only key is "1".
NoTerminatorSingleKey ==
    (Partitioned /\ ~HasTerminator(sql.v.s)) => DOMAIN Output = {"1"}

\* C3 amended: a partitioned text without a terminator yields the empty
\* mapping when it is blank, the single key "0" when its trimmed text begins
\* with "USE " (whatever the case), and the single key "1" otherwise; the one
\* value is the trimmed text followed by ";".
NoTerminatorCases ==
    (Partitioned /\ ~HasTerminator(sql.v.s)) =>
        LET s == sql.v.s
            st == Trimmed(s) \o <<";">>
        IN  /\ IsBlank(s) => DOMAIN Output = {}
            /\ (~IsBlank(s) /\ IsContextStatement(st)) =>
                  DOMAIN Output = {"0"} /\ Output["0"] = st
            /\ (~IsBlank(s) /\ ~IsContextStatement(st)) =>
                  DOMAIN Output = {"1"} /\ Output["1"] = st

\* a terminator-free body text was partitioned into the single key "1"
NoTerminatorCasesWitness ==
    /\ Partitioned
    /\ sql.v.s = <<"U", "S", "E", "\n", "d">>
    /\ DOMAIN Output = {"1"}
    /\ Output["1"] = <<"U", "S", "E", "\n", "d", ";">>

\* C4: partitioning the concatenation, in key order, of the values of a
\* produced mapping yields the same keys with the same text under every key.
RepartitionIdempotent ==
    Partitioned => PartitionText(ConcatInKeyOrder(Output)) = Output

\* a mapping with a merged context entry and two body entries was produced
\* from a text that differs from the concatenation of its values
RepartitionIdempotentWitness ==
    /\ Partitioned
    /\ DOMAIN Output = {"0", "1", "2"}
    /\ Len(combined_use) = 2
    /\ ConcatInKeyOrder(Output) # sql.v.s

(***************************************************************************)
(* Properties of the request handler.                                      *)
(***************************************************************************)
\* the inbound document is a decodable object holding the field inputJson
HasPipelineField(req) ==
    /\ req.is_json
    /\ req.body.k = "json"
    /\ req.body.doc.t = "dict"
    /\ "inputJson" \in DOMAIN req.body.doc.v

\* ... and its inputJson, when given as text, decodes
ValidRequest(req) ==
    /\ HasPipelineField(req)
    /\ LET v == req.body.doc.v["inputJson"] IN v.t = "str" => v.v.k = "json"

\* C5: every inbound document that is not a decodable object holding
\* inputJson is answered with MalformedRequest, status 400.
MalformedRequestRejected ==
    (pc = "done" /\ ~HasPipelineField(request)) =>
        /\ reply[1].status = 400
        /\ ErrorKind(reply[1]) = "MalformedRequest"

\* the backend answered with success status and a payload object
BackendPayloadRead ==
    /\ "kind" \in DOMAIN backend
    /\ backend.kind = "response"
    /\ backend.status_code = 200
    /\ backend.text.k = "json"
    /\ backend.text.doc.t = "dict"

\* the output field of the payload is absent, carries no text, or is blank
OutputEmpty(d) ==
    \/ "output" \notin DOMAIN d.v
    \/ d.v["output"].t = "NoneType"
    \/ d.v["output"].t = "str" /\ StripText(d.v["output"].v) = Chars(<<>>)

\* C6: a success-status backend reply whose output is empty, blank, absent
\* or without text is answered with EmptyGenerationOutput (status 500, that
\* error text, the raw output attached) and is neither decoded nor partitioned.
EmptyOutputRejected ==
    (pc = "done" /\ BackendPayloadRead /\ OutputEmpty(backend.text.doc)) =>
        /\ reply[1].status = 500
        /\ reply[1].doc.error = "DOMO API returned empty output"
        /\ "raw_output" \in DOMAIN reply[1].doc
        /\ \A i \in 1..Len(stages) : stages[i] \notin {"parse_output", "partition"}

\* the response parser ran on a non-empty output text
OutputParsed ==
    /\ pc = "done"
    /\ \E i \in 1..Len(stages) : stages[i] = "parse_output"

\* C7: a non-empty output text that does not decode is answered with
\* InvalidGenerationOutput (500, raw text and decode error attached); one that
\* decodes to a value whose sql field is absent or empty, the value being an
\* object or not, is answered with MissingRequiredField (500, raw output).
OutputFieldChecked ==
    OutputParsed =>
        LET r == JsonLoads(response_content.v)
        IN  /\ ~r.ok =>
                  /\ reply[1].status = 500
                  /\ ErrorKind(reply[1]) = "InvalidGenerationOutput"
                  /\ DOMAIN reply[1].doc = {"error", "raw_output", "details"}
                  /\ reply[1].doc.raw_output = response_content
            /\ (r.ok /\ (r.v.t # "dict" \/ ~Truthy(DictGet(r.v, "sql", PyNone)))) =>
                  /\ reply[1].status = 500
                  /\ ErrorKind(reply[1]) = "MissingRequiredField"
                  /\ "raw_output" \in DOMAIN reply[1].doc

\* the order of the stages of one request
STAGE_ORDER ==
    <<"is_json", "get_json", "lookup", "decode_input", "call_backend",
      "read_output", "parse_output", "partition">>

IsPrefix(p, q) == Len(p) <= Len(q) /\ SubSeq(q, 1, Len(p)) = p

\* C8: within a request the stages run in order, each at most once; the
\* backend is called at most once and only for a request that passed
\* validation; the response is read only after a success-status reply; once a
\* response is returned no stage runs; an error response carries no
\* partitioned statements.
StagesForwardFailFast ==
    [][/\ IsPrefix(stages', STAGE_ORDER)
       /\ calls' <= 1
       /\ calls' > calls => (reply = <<>> /\ ValidRequest(request))
       /\ (\E i \in 1..Len(stages') : stages'[i] = "read_output") =>
              (backend'.kind = "response" /\ backend'.status_code = 200)
       /\ reply # <<>> => (stages' = <<>> /\ reply' = <<>> /\ calls' = 0)
       /\ (reply' # <<>> /\ "error" \in DOMAIN reply'[1].doc) =>
              /\ "Output" \notin DOMAIN reply'[1].doc
              /\ reply'[1].status # 200
              /\ indexed_sql' = <<>>
      ]_vars

\* the backend answered with a non-success status and the handler returned
StagesForwardFailFastWitness ==
    /\ pc = "done"
    /\ calls = 1
    /\ backend.kind = "response"
    /\ backend.status_code = 500
    /\ stages = SubSeq(STAGE_ORDER, 1, 5)
    /\ ErrorKind(reply[1]) = "BackendUnavailable"

\* C9: whenever the backend is called, the pipeline description serialized
\* into the prompt is an object, reached by at most one decode pass.
OnlyObjectsForwarded ==
    calls > 0 =>
        /\ payload.input.etl = JsonDumps(input_json)
        /\ decodes <= 1
        /\ input_json.t = "dict"

\* a response is structured: the success document, or an error document
Structured(r) ==
    \/ r.status = 200 /\ DOMAIN r.doc = {"Output"}
    \/ r.status \in {400, 500} /\ "error" \in DOMAIN r.doc

\* a fault outside the named failure kinds occurred in the finished request
Faulted ==
    \/ request.is_json /\ request.body.k # "json"
    \/ data.t \in {"NoneType", "int"}
    \/ data.t \in {"str", "list"} /\ KeyInData(data).v
    \/ "kind" \in DOMAIN backend /\ backend.kind = "raise"
    \/ /\ "kind" \in DOMAIN backend /\ backend.kind = "response" /\ backend.status_code = 200
       /\ \/ backend.text.k # "json"
          \/ backend.text.doc.t # "dict"
          \/ response_content.t \notin {"unset", "str"}
          \/ /\ response_content.t = "str"
             /\ response_content.v.k = "json"
             /\ response_content.v.doc.t # "dict"
          \/ sql.t \notin {"unset", "str"} /\ Truthy(sql)

\* C10: a finished request has exactly one response and it is structured; a
\* fault outside the named kinds is answered with status 500 and the
\* exception's message as the only field; an unfinished request has no
\* response yet.
OneStructuredResponse ==
    /\ pc = "done" =>
          /\ Len(reply) = 1
          /\ Structured(reply[1])
          /\ Faulted =>
                /\ reply[1].status = 500
                /\ DOMAIN reply[1].doc = {"error"}
                /\ ErrorKind(reply[1]) = "InternalError"
          /\ ("kind" \in DOMAIN backend /\ backend.kind = "raise") =>
                reply[1] = Response(500, [error |-> backend.exc])
    /\ pc # "done" => reply = <<>>

\* the backend call raised and the request finished with the wrapped fault
OneStructuredResponseWitness ==
    /\ pc = "done"
    /\ "kind" \in DOMAIN backend
    /\ backend.kind = "raise"
    /\ reply = <<Response(500, [error |-> "ConnectionError"])>>

====
